---- MODULE Spec2Model ----
(***************************************************************************)
(* The service registry (model_registry.py), the in-process broker         *)
(* (pubsub.py), the capability contract (model_services/base.py with the   *)
(* three concrete services) and the HTTP endpoints of main.py that sit on  *)
(* top of them.                                                            *)
(*                                                                         *)
(* A request is a task.  An async handler runs without interruption up to  *)
(* the await of an inference step (ModelService._predict), where the task  *)
(* is suspended and other requests may run; everything after the last      *)
(* inference step of a call chain (the returns of the nested publish       *)
(* calls, each storing its response) runs without suspension.              *)
(***************************************************************************)
EXTENDS Naturals, Sequences, FiniteSets, TLC

VARIABLES
    model_services,     \* ModelRegistry._model_services: the names, in insertion order
    chains,             \* ModelRegistry._chains: source name -> target name
    registry,           \* "declaring", "constructed", or "failed" (construction raised)
    service_instances,  \* ModelRegistry._service_instances: the names, in insertion order
    message_queues,     \* PubSubClient._message_queues: topic -> callback
    last_responses,     \* PubSubClient._last_responses: topic -> response
    tasks,              \* the HTTP requests, in the order they arrived
    completed,          \* history: topic -> value returned by the latest successful publish
    last_registered,    \* history: the latest register_topic call made from outside the registry
    nreg,               \* the number of those calls
    declared            \* history: the latest chain_to call and how it ended, kept
                        \* until a registry is constructed

vars == <<model_services, chains, registry, service_instances, message_queues,
          last_responses, tasks, completed, last_registered, nreg, declared>>

----------------------------------------------------------------------------
(* Bounds *)

MaxRequests == 2          \* HTTP requests served by the application
MaxRegs == 2              \* register_topic calls made from outside the registry
MaxDepth == 3             \* nested publish calls of one request
MaxChains == 2            \* sources with a declared successor, in SpecRegistry
MaxRegistryRequests == 1  \* requests served by a registry of SpecRegistry

TaskIds == 1..MaxRequests

----------------------------------------------------------------------------
(* The service classes, by the name their instances report *)

NER == "entity-recognition"
EL == "entity-linking"
SUM == "entity-summarization"
ServiceClasses == {NER, EL, SUM}

trigger_topic(model_name) == model_name \o "-trigger"

OtherTopic == "other-topic"
Topics == {trigger_topic(n) : n \in ServiceClasses} \cup {OtherTopic}
ModelNames == ServiceClasses \cup {"no-such-model"}

Range(s) == {s[i] : i \in 1..Len(s)}

----------------------------------------------------------------------------
(* JSON values.  A dict is [type |-> "object", members |-> f] with f a      *)
(* function from its keys; leaf values are strings.                        *)

NoValue == [type |-> "none"]
Obj(d) == [type |-> "object", members |-> d]
EmptyDict == Obj(<<>>)
JsonArray == [type |-> "array"]

Ids == {"doc1", "doc2"}
Uuids == {"uuid-a", "uuid-b"}
Texts == {"t1", "t2"}
StrValues == Ids \cup Uuids \cup Texts

ner_pipeline(text) == "ner(" \o text \o ")"
wikipedia_link(entities) == "link(" \o entities \o ")"
summarize(linked) == "sum(" \o linked \o ")"

EntityLists == {ner_pipeline(t) : t \in Texts}
LinkedLists == {wikipedia_link(e) : e \in EntityLists}
SummarizedLists == {summarize(l) : l \in LinkedLists}

\* the request bodies the model draws from
Payloads == { Obj([id |-> "doc1", text |-> "t1"]),
              Obj([text |-> "t2"]),
              Obj([id |-> "doc2"]) }
JsonInputs == Payloads \cup {JsonArray}

----------------------------------------------------------------------------
(* Exceptions: the class and what raised it *)

NoError == [cls |-> "", what |-> ""]
Err(cls, what) == [cls |-> cls, what |-> what]
TopicNotRegistered == Err("ValueError", "topic-not-registered")
NoCallbackRegistered == Err("ValueError", "no-callback")
ModelNotFound == Err("ValueError", "model-not-found")
ValidationError == Err("ValidationError", "validation")
NotAMapping == Err("TypeError", "not-a-mapping")
RecursionError == Err("RecursionError", "maximum recursion depth exceeded")
InferenceErrors == {Err("RuntimeError", "inference"), Err("ValueError", "inference")}

\* isinstance(e, ValueError): pydantic's ValidationError derives from ValueError
IsValueError(e) == e.cls \in {"ValueError", "ValidationError"}

----------------------------------------------------------------------------
(* schemas.py *)

field_type_ok(field, value) ==
    CASE field = "id" -> value \in StrValues
      [] field = "text" -> value \in StrValues
      [] field = "entities" -> value \in EntityLists
      [] field = "linked_entities" -> value \in LinkedLists
      [] field = "summarized_entities" -> value \in SummarizedLists
      [] OTHER -> TRUE

\* the fields without a default
required_fields(service) ==
    CASE service = NER -> {"text"}
      [] service = EL -> {"text", "entities"}
      [] service = SUM -> {"id", "text", "linked_entities"}

input_schema_fields(service) == required_fields(service) \cup {"id"}

\* the fields of the result schema get_output_schema() names
output_schema_fields(service) ==
    CASE service = NER -> {"id", "text", "entities"}
      [] service = EL -> {"id", "text", "linked_entities"}
      [] service = SUM -> {"id", "text", "summarized_entities"}

\* get_input_schema()(**model_input): extra keys are ignored, a missing id is a
\* fresh uuid4
validate(service, model_input, uuid) ==
    IF model_input.type # "object"
    THEN [error |-> NotAMapping, value |-> NoValue]
    ELSE LET d == model_input.members
             present == DOMAIN d \cap input_schema_fields(service)
         IN IF \/ \E f \in required_fields(service) : f \notin DOMAIN d
               \/ \E f \in present : ~field_type_ok(f, d[f])
            THEN [error |-> ValidationError, value |-> NoValue]
            ELSE [error |-> NoError,
                  value |-> [f \in input_schema_fields(service) |->
                                IF f \in DOMAIN d THEN d[f] ELSE uuid]]

\* EntityRecognitionModelService._predict
EntityRecognition_predict(model_input) ==
    [id |-> model_input.id, text |-> model_input.text,
     entities |-> ner_pipeline(model_input.text)]

\* an entity linking that gives its result an id of its own
EntityLinking_predict_fresh_id(model_input) ==
    [id |-> "uuid-a", text |-> model_input.text,
     linked_entities |-> wikipedia_link(model_input.entities)]

\* EntityLinkingModelService._predict
EntityLinking_predict(model_input) ==
    [id |-> model_input.id, text |-> model_input.text,
     linked_entities |-> wikipedia_link(model_input.entities)]

\* EntitySummarizationModelService._predict
EntitySummarization_predict(model_input) ==
    [id |-> model_input.id, text |-> model_input.text,
     summarized_entities |-> summarize(model_input.linked_entities)]

\* self._predict(schematized_input), by the class of self
service_predict(service, schematized_input) ==
    CASE service = NER -> EntityRecognition_predict(schematized_input)
      [] service = EL -> EntityLinking_predict(schematized_input)
      [] service = SUM -> EntitySummarization_predict(schematized_input)

\* schematized_output.model_dump()
model_dump(schematized_output) == Obj(schematized_output)

----------------------------------------------------------------------------
(* Callbacks: service.predict, a chained callback, or a handler registered  *)
(* from outside the registry                                               *)

NoCallback == [kind |-> "none", source |-> "", target |-> ""]
PredictCallback(service) == [kind |-> "predict", source |-> service, target |-> ""]
ChainedCallback(source, target) == [kind |-> "chained", source |-> source, target |-> target]
RawCallback(h) == [kind |-> "raw", source |-> h, target |-> ""]
RawHandlers == {"hA", "hB"}

\* what a handler registered from outside returns: the message, signed
raw_handler(h, message) ==
    Obj([f \in DOMAIN message.members \cup {"by"} |->
            IF f = "by" THEN h ELSE message.members[f]])

\* dict assignment d[key] = value
store(d, key, value) ==
    [k \in DOMAIN d \cup {key} |-> IF k = key THEN value ELSE d[k]]

----------------------------------------------------------------------------
(* pubsub.py *)

\* a register_topic that skips the registration of an existing topic, as its log
\* line says
register_topic_skip_existing(queues, topic, callback) ==
    IF topic \in DOMAIN queues THEN queues ELSE store(queues, topic, callback)

\* a register_topic that stops at line 18 for a new topic: the topic is entered
\* with None, and the callback is set for an existing topic only
register_topic_placeholder(queues, topic, callback) ==
    IF topic \in DOMAIN queues
    THEN store(queues, topic, callback)
    ELSE store(queues, topic, [kind |-> "none", source |-> "", target |-> ""])

\* PubSubClient.register_topic: the callback of a topic is set, new or not
register_topic(queues, topic, callback) == store(queues, topic, callback)

\* PubSubClient.get_last_response: _last_responses.get(topic, {})
get_last_response(topic) ==
    IF topic \in DOMAIN last_responses THEN last_responses[topic] ELSE EmptyDict

\* a publish that keeps the first response of a topic (setdefault)
publish_store_first(responses, topic, response) ==
    IF topic \in DOMAIN responses THEN responses ELSE store(responses, topic, response)

\* PubSubClient.publish, line 38: self._last_responses[topic] = response
publish_store(responses, topic, response) == store(responses, topic, response)

----------------------------------------------------------------------------
(* model_registry.py: the declarations and the construction of a registry *)

KeyError == Err("KeyError", "chain-target")

\* ModelRegistry.register: cls._model_services[temp_instance.name] = model_service_class
register(service_class) ==
    /\ registry = "declaring"
    /\ model_services' = IF service_class \in Range(model_services)
                         THEN model_services
                         ELSE Append(model_services, service_class)
    /\ model_services' # model_services
    /\ UNCHANGED <<chains, registry, service_instances, message_queues, last_responses,
                   tasks, completed, last_registered, nreg, declared>>

\* classes that do not derive from ModelService: one that cannot be constructed
\* with pubsub_client=None, and one that can and whose instances have a name
PlainClass == "PlainClass"
DuckClass == "DuckClass"
Classes == ServiceClasses \cup {PlainClass, DuckClass}

\* model_service_class(pubsub_client=None).name
instance_name(class) == IF class = DuckClass THEN "duck" ELSE class

NotAModelService == Err("TypeError", "must-inherit-from-ModelService")
NotConstructible == Err("TypeError", "constructor")
NoDeclaration == [source |-> "", target |-> "", was |-> "", error |-> NoError]

\* a chain_to that keeps the successor a source already has
decorator_first_wins(d, target_service_class, source_service_class) ==
    IF source_service_class \notin ServiceClasses
    THEN [error |-> NotAModelService, chains |-> d]
    ELSE IF target_service_class = PlainClass
         THEN [error |-> NotConstructible, chains |-> d]
         ELSE [error |-> NoError,
               chains |-> IF instance_name(source_service_class) \in DOMAIN d THEN d
                          ELSE store(d, instance_name(source_service_class),
                                     instance_name(target_service_class))]

\* ModelRegistry.chain_to, the decorator, lines 52-60, on the chains d: issubclass
\* is asked of the source alone; the two classes are instantiated for their names
decorator(d, target_service_class, source_service_class) ==
    IF source_service_class \notin ServiceClasses
    THEN [error |-> NotAModelService, chains |-> d]
    ELSE IF target_service_class = PlainClass
         THEN [error |-> NotConstructible, chains |-> d]
         ELSE [error |-> NoError,
               chains |-> store(d, instance_name(source_service_class),
                                instance_name(target_service_class))]

\* ModelRegistry.chain_to(target)(source)
chain_to(target_service_class, source_service_class) ==
    /\ registry = "declaring"
    /\ LET r == decorator(chains, target_service_class, source_service_class)
           source == instance_name(source_service_class)
           target == instance_name(target_service_class)
       IN /\ ~(source \in DOMAIN chains /\ chains[source] = target)
          /\ chains' = r.chains
          /\ Cardinality(DOMAIN chains') <= MaxChains
          /\ declared' = [source |-> source_service_class, target |-> target_service_class,
                          was |-> IF source \in DOMAIN chains THEN chains[source] ELSE "",
                          error |-> r.error]
    /\ UNCHANGED <<model_services, registry, service_instances, message_queues,
                   last_responses, tasks, completed, last_registered, nreg>>

\* a registry that looks the target up when the chained callback runs, not when
\* it is built
effective_callback_unchecked(service_name, instances) ==
    IF service_name \in DOMAIN chains
    THEN [error |-> NoError,
          callback |-> ChainedCallback(service_name, chains[service_name])]
    ELSE [error |-> NoError, callback |-> PredictCallback(service_name)]

\* a registry that chains a service without a declared successor to the first
\* service of the catalog
effective_callback_default_successor(service_name, instances) ==
    IF service_name \in DOMAIN chains
    THEN IF chains[service_name] \in Range(instances)
         THEN [error |-> NoError,
               callback |-> ChainedCallback(service_name, chains[service_name])]
         ELSE [error |-> Err("KeyError", "chain-target"), callback |-> NoCallback]
    ELSE [error |-> NoError, callback |-> ChainedCallback(service_name, instances[1])]

\* a registry that refuses a service chained to itself
effective_callback_no_self_chain(service_name, instances) ==
    IF service_name \in DOMAIN chains
    THEN IF chains[service_name] \in Range(instances) \ {service_name}
         THEN [error |-> NoError,
               callback |-> ChainedCallback(service_name, chains[service_name])]
         ELSE [error |-> Err("KeyError", "chain-target"), callback |-> NoCallback]
    ELSE [error |-> NoError, callback |-> PredictCallback(service_name)]

\* _initialize_services, lines 111-117: the callback of one service; the lookup
\* self._service_instances[self._chains[service_name]] raises KeyError
effective_callback(service_name, instances) ==
    IF service_name \in DOMAIN chains
    THEN IF chains[service_name] \in Range(instances)
         THEN [error |-> NoError,
               callback |-> ChainedCallback(service_name, chains[service_name])]
         ELSE [error |-> KeyError, callback |-> NoCallback]
    ELSE [error |-> NoError, callback |-> PredictCallback(service_name)]

\* _initialize_services, lines 110-119: the loop over the instances, from the i-th
RECURSIVE setup_topics(_, _, _)
setup_topics(queues, instances, i) ==
    IF i > Len(instances)
    THEN [error |-> NoError, message_queues |-> queues]
    ELSE LET c == effective_callback(instances[i], instances)
         IN IF c.error # NoError
            THEN [error |-> c.error, message_queues |-> queues]
            ELSE setup_topics(register_topic(queues, trigger_topic(instances[i]), c.callback),
                              instances, i + 1)

\* ModelRegistry.__init__ with _initialize_services, on the broker of main.py
initialize_services ==
    /\ registry = "declaring"
    /\ service_instances' = model_services
    /\ LET r == setup_topics(message_queues, model_services, 1)
       IN /\ message_queues' = r.message_queues
          /\ registry' = IF r.error = NoError THEN "constructed" ELSE "failed"
    /\ declared' = NoDeclaration
    /\ UNCHANGED <<model_services, chains, last_responses, tasks, completed,
                   last_registered, nreg>>

\* ModelRegistry.register called once a registry exists: the class-level
\* _model_services gets the entry, the registry's _service_instances and the
\* broker are not referred to
register_after_construct(service_class) ==
    /\ registry = "constructed"
    /\ model_services' = IF service_class \in Range(model_services)
                         THEN model_services
                         ELSE Append(model_services, service_class)
    /\ model_services' # model_services
    /\ UNCHANGED <<chains, registry, service_instances, message_queues, last_responses,
                   tasks, completed, last_registered, nreg, declared>>

\* ModelRegistry.chain_to(target)(source) called once a registry exists: the
\* class-level _chains gets the entry
chain_to_after_construct(target_service_class, source_service_class) ==
    /\ registry = "constructed"
    /\ LET r == decorator(chains, target_service_class, source_service_class)
       IN /\ chains' = r.chains
          /\ chains' # chains
          /\ Cardinality(DOMAIN chains') <= MaxChains
    /\ UNCHANGED <<model_services, registry, service_instances, message_queues,
                   last_responses, tasks, completed, last_registered, nreg, declared>>

\* ModelRegistry.model_names: list(self._model_services.keys())
model_names == model_services

\* a get_model that looks the name up in the catalog of classes
get_model_from_catalog(model_name) ==
    IF model_name \notin Range(model_services)
    THEN [error |-> Err("ValueError", "model-not-found"), service |-> ""]
    ELSE [error |-> NoError, service |-> model_name]

\* a get_model that looks the name up among the service classes, not among the
\* instances of this registry
get_model_of_any_class(model_name) ==
    IF model_name \notin ServiceClasses
    THEN [error |-> Err("ValueError", "model-not-found"), service |-> ""]
    ELSE [error |-> NoError, service |-> model_name]

\* ModelRegistry.get_model
get_model(model_name) ==
    IF model_name \notin Range(service_instances)
    THEN [error |-> ModelNotFound, service |-> ""]
    ELSE [error |-> NoError, service |-> model_name]

----------------------------------------------------------------------------
(* Requests.  calls is the stack of publish calls of the request that        *)
(* reached a callback, outermost first: the topic, the callback read from   *)
(* the table, the message, the output of the callback's own predict and the *)
(* value the publish call returned.  stored is the topics whose last         *)
(* response the request wrote, in the order of the writes.  fault is the    *)
(* exception raised inside the request, error the one that reached the      *)
(* endpoint.                                                               *)

IdleTask == [pc |-> "idle", entry |-> "none", target |-> "", input |-> NoValue,
             calls |-> <<>>, service |-> "", model_input |-> NoValue,
             stored |-> <<>>, fault |-> NoError, error |-> NoError, response |-> NoValue,
             status |-> 0]

NewTask(entry, target, input) ==
    [IdleTask EXCEPT !.pc = "running", !.entry = entry, !.target = target, !.input = input]

Call(topic, callback, message) ==
    [topic |-> topic, callback |-> callback, message |-> message,
     output |-> NoValue, result |-> NoValue]

\* m is the part of the state a request works on:
\* [task, last_responses, completed]

\* a chained callback that returns what the publish to the target returned
chained_callback_return_target(source_output, target_response) == target_response

\* chained_callback, line 97: return source_output
chained_callback_return(source_output, target_response) == source_output

\* a publish whose calls store their responses outermost first
RECURSIVE publish_return_outermost_first(_, _, _)
publish_return_outermost_first(m, i, response) ==
    LET c == m.task.calls[i]
        m1 == [m EXCEPT !.last_responses = publish_store(@, c.topic, response),
                        !.completed = store(@, c.topic, response),
                        !.task.calls[i].result = response,
                        !.task.stored = <<c.topic>> \o @]
    IN IF i = 1
       THEN [m1 EXCEPT !.task.pc = "done", !.task.response = response,
                       !.task.service = "", !.task.model_input = NoValue]
       ELSE publish_return_outermost_first(m1, i - 1,
                chained_callback_return(m.task.calls[i - 1].output, response))

\* PubSubClient.publish, lines 36-39, for the i-th call of the request and on to
\* the request's outermost call: the response is stored and returned to the
\* chained callback that awaited it, which returns its own output
RECURSIVE publish_return(_, _, _)
publish_return(m, i, response) ==
    LET c == m.task.calls[i]
        m1 == [m EXCEPT !.last_responses = publish_store(@, c.topic, response),
                        !.completed = store(@, c.topic, response),
                        !.task.calls[i].result = response,
                        !.task.stored = Append(@, c.topic)]
    IN IF i = 1
       THEN [m1 EXCEPT !.task.pc = "done", !.task.response = response,
                       !.task.service = "", !.task.model_input = NoValue]
       ELSE publish_return(m1, i - 1,
                chained_callback_return(m.task.calls[i - 1].output, response))

\* a chained callback that catches what its publish to the target raises and
\* returns its own output
propagate_caught(m, e) ==
    LET i == Len(m.task.calls)
    IN IF i >= 2
       THEN publish_return(m, i - 1, m.task.calls[i - 1].output)
       ELSE [m EXCEPT !.task.pc = "done", !.task.error = e,
                      !.task.service = "", !.task.model_input = NoValue]

\* a publish that drops the last response of its topic when its callback raises
propagate_clearing(m, e) ==
    LET failed == {m.task.calls[i].topic : i \in DOMAIN m.task.calls}
    IN [m EXCEPT !.task.pc = "done", !.task.error = e,
                 !.task.service = "", !.task.model_input = NoValue,
                 !.last_responses = [x \in DOMAIN @ \ failed |-> @[x]]]

\* chained_callback, lines 93-97, and publish, line 35: neither catches what the
\* awaited call raises, so the exception leaves every frame of the request and
\* reaches the endpoint
propagate(m, e) ==
    [m EXCEPT !.task.pc = "done", !.task.error = e,
              !.task.service = "", !.task.model_input = NoValue]

\* a raise statement, or a call that raises
raises(m, e) == propagate([m EXCEPT !.task.fault = e], e)

\* ModelService.predict, lines 65-68: up to the await of the inference step
predict_begin(m, service, model_input, uuid) ==
    LET v == validate(service, model_input, uuid)
    IN IF v.error # NoError
       THEN raises(m, v.error)
       ELSE [m EXCEPT !.task.pc = "awaiting", !.task.service = service,
                      !.task.model_input = v.value]

\* a publish that does nothing on a topic it does not know
publish_unregistered_noop(m, topic) ==
    [m EXCEPT !.task.pc = "done", !.task.response = EmptyDict]

\* PubSubClient.publish, lines 30-31: the topic is not a key of the table
publish_unregistered(m, topic) == raises(m, TopicNotRegistered)

\* PubSubClient.publish, lines 30-35: up to the await of the callback.  The calls
\* of a request nest (each awaits the next), and the interpreter raises
\* RecursionError in the call that would nest deeper than its limit, which
\* MaxDepth stands for
publish(m, topic, message, uuid) ==
    IF Len(m.task.calls) >= MaxDepth
    THEN raises(m, RecursionError)
    ELSE IF topic \notin DOMAIN message_queues
    THEN publish_unregistered(m, topic)
    ELSE LET callback == message_queues[topic]
         IN IF callback = NoCallback
            THEN raises(m, NoCallbackRegistered)
            ELSE LET m1 == [m EXCEPT !.task.calls = Append(@, Call(topic, callback, message))]
                 IN IF callback.kind = "raw"
                    THEN publish_return(m1, Len(m1.task.calls),
                                        raw_handler(callback.source, message))
                    ELSE predict_begin(m1, callback.source, message, uuid)

\* a chained callback that writes the output of its own predict as the last
\* response of its topic before it publishes to the target
predict_returns_storing_early(m, schematized_output, uuid) ==
    LET raw_output == model_dump(schematized_output)
        i == Len(m.task.calls)
    IN IF i = 0
       THEN [m EXCEPT !.task.pc = "done", !.task.response = raw_output,
                      !.task.service = "", !.task.model_input = NoValue]
       ELSE IF m.task.calls[i].callback.kind = "predict"
            THEN publish_return(m, i, raw_output)
            ELSE publish([m EXCEPT !.task.calls[i].output = raw_output,
                                   !.last_responses =
                                       publish_store(@, m.task.calls[i].topic, raw_output)],
                         trigger_topic(m.task.calls[i].callback.target), raw_output, uuid)

\* ModelService.predict, lines 68-71, after the inference step returned
\* schematized_output, which is dumped as it is, and what
\* the caller of predict does with the output: the endpoint answers, publish
\* returns, or chained_callback (lines 93-96) publishes it to the target's topic
predict_returns(m, schematized_output, uuid) ==
    LET raw_output == model_dump(schematized_output)
        i == Len(m.task.calls)
    IN IF i = 0
       THEN [m EXCEPT !.task.pc = "done", !.task.response = raw_output,
                      !.task.service = "", !.task.model_input = NoValue]
       ELSE IF m.task.calls[i].callback.kind = "predict"
            THEN publish_return(m, i, raw_output)
            ELSE publish([m EXCEPT !.task.calls[i].output = raw_output],
                         trigger_topic(m.task.calls[i].callback.target), raw_output, uuid)

\* the same, with the inference step of the class of the service
predict_returned(m, uuid) ==
    predict_returns(m, service_predict(m.task.service, m.task.model_input), uuid)

----------------------------------------------------------------------------
(* main.py: the endpoints *)

\* POST /{model_name}/predict, lines 60-67
predict_status(error) ==
    IF error = NoError THEN 200
    ELSE IF IsValueError(error) THEN 404
    ELSE 500

\* POST /publish, lines 82-95
publish_status(error) ==
    IF error = NoError THEN 200
    ELSE IF IsValueError(error) THEN 400
    ELSE 500

\* GET /{topic}/last_response, lines 101-108: `not response` holds of the empty
\* dict, and the HTTPException(404) raised in the try block is caught by its
\* except Exception, which answers 500
last_response_status(response) ==
    IF response = EmptyDict THEN 500 ELSE 200

\* the endpoint answers once its coroutine is over
answered(task) ==
    IF task.pc # "done" THEN task
    ELSE [task EXCEPT !.status =
             CASE task.entry = "predict" -> predict_status(task.error)
               [] task.entry = "publish" -> publish_status(task.error)
               [] task.entry = "last_response" -> last_response_status(task.response)
               [] OTHER -> 0]

Machine(task) ==
    [task |-> task, last_responses |-> last_responses, completed |-> completed]

Commit(t, m) ==
    /\ tasks' = [tasks EXCEPT ![t] = answered(m.task)]
    /\ last_responses' = m.last_responses
    /\ completed' = m.completed

\* request t is the t-th to arrive
CanStart(t) ==
    /\ tasks[t].pc = "idle"
    /\ \A u \in TaskIds : u < t => tasks[u].pc # "idle"

\* POST /publish
main_publish(t, topic, payload, uuid) ==
    /\ registry = "constructed"
    /\ CanStart(t)
    /\ Commit(t, publish(Machine(NewTask("publish", topic, payload)), topic, payload, uuid))
    /\ UNCHANGED <<model_services, chains, registry, service_instances, message_queues,
                   last_registered, nreg, declared>>

\* a predict endpoint that hands the input to the callback registered on the
\* trigger topic of the service
main_predict_through_topic(t, model_name, model_input, uuid) ==
    /\ registry = "constructed"
    /\ CanStart(t)
    /\ LET m == Machine(NewTask("predict", model_name, model_input))
           g == get_model(model_name)
       IN Commit(t, IF g.error # NoError
                    THEN raises(m, g.error)
                    ELSE publish(m, trigger_topic(g.service), model_input, uuid))
    /\ UNCHANGED <<model_services, chains, registry, service_instances, message_queues,
                   last_registered, nreg, declared>>

\* POST /{model_name}/predict
main_predict(t, model_name, model_input, uuid) ==
    /\ registry = "constructed"
    /\ CanStart(t)
    /\ LET m == Machine(NewTask("predict", model_name, model_input))
           g == get_model(model_name)
       IN Commit(t, IF g.error # NoError
                    THEN raises(m, g.error)
                    ELSE predict_begin(m, g.service, model_input, uuid))
    /\ UNCHANGED <<model_services, chains, registry, service_instances, message_queues,
                   last_registered, nreg, declared>>

\* GET /{topic}/last_response
main_last_response(t, topic) ==
    /\ registry = "constructed"
    /\ CanStart(t)
    /\ LET m == Machine(NewTask("last_response", topic, NoValue))
       IN Commit(t, [m EXCEPT !.task.pc = "done",
                              !.task.response = get_last_response(topic)])
    /\ UNCHANGED <<model_services, chains, registry, service_instances, message_queues,
                   last_registered, nreg, declared>>

\* the awaited inference step of request t returns
inference_returns(t, uuid) ==
    /\ tasks[t].pc = "awaiting"
    /\ Commit(t, predict_returned(Machine(tasks[t]), uuid))
    /\ UNCHANGED <<model_services, chains, registry, service_instances, message_queues,
                   last_registered, nreg, declared>>

\* the awaited inference step of request t raises
inference_raises(t, e) ==
    /\ tasks[t].pc = "awaiting"
    /\ Commit(t, raises(Machine(tasks[t]), e))
    /\ UNCHANGED <<model_services, chains, registry, service_instances, message_queues,
                   last_registered, nreg, declared>>

\* ModelService._predict is abstract: what the inference step of a subclass may
\* hand back to predict is any pydantic model, here the result its class builds or
\* the validated input as it came
abstract_predict(service, schematized_input) ==
    {service_predict(service, schematized_input), schematized_input}

\* the awaited inference step of request t returns, for predict as the base class
\* has it, whatever the subclass
abstract_inference_returns(t, uuid) ==
    /\ tasks[t].pc = "awaiting"
    /\ \E schematized_output \in abstract_predict(tasks[t].service, tasks[t].model_input) :
          Commit(t, predict_returns(Machine(tasks[t]), schematized_output, uuid))
    /\ UNCHANGED <<model_services, chains, registry, service_instances, message_queues,
                   last_registered, nreg, declared>>

----------------------------------------------------------------------------
(* The broker on its own: calls of the three methods of a PubSubClient that  *)
(* no registry was built on, with callbacks that return at once             *)

BrokerTopics == {"topic-a", "topic-b"}
Messages == {Obj([v |-> "1"]), Obj([v |-> "5"])}

broker_register_topic(topic, h) ==
    /\ nreg < MaxRegs
    /\ nreg' = nreg + 1
    /\ message_queues' = register_topic(message_queues, topic, RawCallback(h))
    /\ last_registered' = [topic |-> topic, callback |-> RawCallback(h),
                           was |-> IF topic \in DOMAIN message_queues
                                   THEN message_queues[topic] ELSE NoCallback]
    /\ UNCHANGED <<model_services, chains, registry, service_instances, last_responses,
                   tasks, completed, declared>>

broker_publish(t, topic, message) ==
    /\ CanStart(t)
    /\ Commit(t, publish(Machine(NewTask("broker.publish", topic, message)),
                         topic, message, "uuid-a"))
    /\ UNCHANGED <<model_services, chains, registry, service_instances, message_queues,
                   last_registered, nreg, declared>>

broker_get_last_response(t, topic) ==
    /\ CanStart(t)
    /\ LET m == Machine(NewTask("broker.get_last_response", topic, NoValue))
       IN Commit(t, [m EXCEPT !.task.pc = "done",
                              !.task.response = get_last_response(topic)])
    /\ UNCHANGED <<model_services, chains, registry, service_instances, message_queues,
                   last_registered, nreg, declared>>

----------------------------------------------------------------------------
(* Spec: the application of main.py.  Importing the three service modules   *)
(* (main.py, lines 15-17) runs their decorators: summarization registers,   *)
(* entity_linking chains to it and registers, entity_recognition chains to  *)
(* entity_linking and registers.                                           *)

NoRegistration == [topic |-> "", callback |-> NoCallback, was |-> NoCallback]

Init ==
    /\ model_services = <<SUM, EL, NER>>
    /\ chains = (EL :> SUM) @@ (NER :> EL)
    /\ registry = "declaring"
    /\ service_instances = <<>>
    /\ message_queues = <<>>
    /\ last_responses = <<>>
    /\ tasks = [t \in TaskIds |-> IdleTask]
    /\ completed = <<>>
    /\ last_registered = NoRegistration
    /\ nreg = 0
    /\ declared = NoDeclaration

Next ==
    \/ initialize_services
    \/ \E t \in TaskIds, topic \in Topics, payload \in Payloads, uuid \in Uuids :
          main_publish(t, topic, payload, uuid)
    \/ \E t \in TaskIds, name \in ModelNames, input \in JsonInputs, uuid \in Uuids :
          main_predict(t, name, input, uuid)
    \/ \E t \in TaskIds, topic \in Topics : main_last_response(t, topic)
    \/ \E t \in TaskIds, uuid \in Uuids : inference_returns(t, uuid)
    \/ \E t \in TaskIds, e \in InferenceErrors : inference_raises(t, e)

Spec == Init /\ [][Next]_vars

(* SpecContract: the application with the inference steps left abstract, as   *)
(* ModelService.predict sees them.                                          *)

NextContract ==
    \/ initialize_services
    \/ \E t \in TaskIds, topic \in Topics, payload \in Payloads, uuid \in Uuids :
          main_publish(t, topic, payload, uuid)
    \/ \E t \in TaskIds, name \in ModelNames, input \in JsonInputs, uuid \in Uuids :
          main_predict(t, name, input, uuid)
    \/ \E t \in TaskIds, uuid \in Uuids : abstract_inference_returns(t, uuid)
    \/ \E t \in TaskIds, e \in InferenceErrors : inference_raises(t, e)

SpecContract == Init /\ [][NextContract]_vars

(* SpecRegistry: any declarations made through ModelRegistry.register and   *)
(* ModelRegistry.chain_to before a registry is constructed on a fresh       *)
(* broker, and publishes to that broker.                                   *)

InitRegistry ==
    /\ model_services = <<>>
    /\ chains = <<>>
    /\ registry = "declaring"
    /\ service_instances = <<>>
    /\ message_queues = <<>>
    /\ last_responses = <<>>
    /\ tasks = [t \in TaskIds |-> IdleTask]
    /\ completed = <<>>
    /\ last_registered = NoRegistration
    /\ nreg = 0
    /\ declared = NoDeclaration

NextRegistry ==
    \/ \E c \in ServiceClasses : register(c)
    \/ \E target, source \in ServiceClasses : chain_to(target, source)
    \/ initialize_services
    \/ \E t \in 1..MaxRegistryRequests, topic \in Topics, payload \in Payloads, uuid \in Uuids :
          main_publish(t, topic, payload, uuid)
    \/ \E t \in TaskIds, uuid \in Uuids : inference_returns(t, uuid)
    \/ \E t \in TaskIds, e \in InferenceErrors : inference_raises(t, e)

SpecRegistry == InitRegistry /\ [][NextRegistry]_vars

(* SpecChains: the three services registered, any chains between them, and   *)
(* publishes to the registry constructed on them; the event loop resumes a *)
(* request whose awaited inference step is over.                           *)

InitChains ==
    /\ model_services = <<SUM, EL, NER>>
    /\ chains = <<>>
    /\ registry = "declaring"
    /\ service_instances = <<>>
    /\ message_queues = <<>>
    /\ last_responses = <<>>
    /\ tasks = [t \in TaskIds |-> IdleTask]
    /\ completed = <<>>
    /\ last_registered = NoRegistration
    /\ nreg = 0
    /\ declared = NoDeclaration

NextChains ==
    \/ \E target, source \in ServiceClasses : chain_to(target, source)
    \/ initialize_services
    \/ \E t \in 1..MaxRegistryRequests, topic \in Topics, payload \in Payloads, uuid \in Uuids :
          main_publish(t, topic, payload, uuid)
    \/ \E t \in TaskIds, uuid \in Uuids : inference_returns(t, uuid)
    \/ \E t \in TaskIds, e \in InferenceErrors : inference_raises(t, e)

SpecChains ==
    /\ InitChains
    /\ [][NextChains]_vars
    /\ \A t \in TaskIds :
          WF_vars(\/ \E uuid \in Uuids : inference_returns(t, uuid)
                  \/ \E e \in InferenceErrors : inference_raises(t, e))

(* SpecPredict: registries of any catalogue behind the predict endpoint *)

NextPredict ==
    \/ \E c \in ServiceClasses : register(c)
    \/ \E target, source \in ServiceClasses : chain_to(target, source)
    \/ initialize_services
    \/ \E t \in 1..MaxRegistryRequests, name \in ModelNames, input \in JsonInputs, uuid \in Uuids :
          main_predict(t, name, input, uuid)
    \/ \E t \in TaskIds, uuid \in Uuids : inference_returns(t, uuid)
    \/ \E t \in TaskIds, e \in InferenceErrors : inference_raises(t, e)

SpecPredict == InitRegistry /\ [][NextPredict]_vars

(* SpecDeclare: the declarations alone, with classes that are not model     *)
(* services among the arguments of chain_to, up to the construction of a   *)
(* registry.                                                               *)

NextDeclare ==
    \/ \E c \in ServiceClasses : register(c)
    \/ \E target, source \in Classes : chain_to(target, source)
    \/ initialize_services

SpecDeclare == InitRegistry /\ [][NextDeclare]_vars

(* SpecLate: a process that imported entity_linking (which imports          *)
(* summarization) and constructed its registry; declarations go on after   *)
(* that, as when entity_recognition is imported later.                     *)

\* the request bodies of SpecLate: one the input schema of entity linking accepts,
\* one without the entities it requires
LinkingPayloads == { Obj([id |-> "doc1", text |-> "t1", entities |-> ner_pipeline("t1")]),
                     Obj([id |-> "doc2", text |-> "t2"]) }

InitLate ==
    /\ model_services = <<SUM, EL>>
    /\ chains = (EL :> SUM)
    /\ registry = "declaring"
    /\ service_instances = <<>>
    /\ message_queues = <<>>
    /\ last_responses = <<>>
    /\ tasks = [t \in TaskIds |-> IdleTask]
    /\ completed = <<>>
    /\ last_registered = NoRegistration
    /\ nreg = 0
    /\ declared = NoDeclaration

NextLate ==
    \/ initialize_services
    \/ \E c \in ServiceClasses : register_after_construct(c)
    \/ \E target, source \in ServiceClasses : chain_to_after_construct(target, source)
    \/ \E t \in 1..MaxRegistryRequests, topic \in Topics, payload \in LinkingPayloads,
          uuid \in Uuids :
          main_publish(t, topic, payload, uuid)
    \/ \E t \in 1..MaxRegistryRequests, name \in ModelNames, input \in LinkingPayloads,
          uuid \in Uuids :
          main_predict(t, name, input, uuid)
    \/ \E t \in TaskIds, uuid \in Uuids : inference_returns(t, uuid)
    \/ \E t \in TaskIds, e \in InferenceErrors : inference_raises(t, e)

SpecLate == InitLate /\ [][NextLate]_vars

(* SpecBroker: a PubSubClient on its own *)

NextBroker ==
    \/ \E topic \in BrokerTopics, h \in RawHandlers : broker_register_topic(topic, h)
    \/ \E t \in TaskIds, topic \in BrokerTopics, message \in Messages :
          broker_publish(t, topic, message)
    \/ \E t \in TaskIds, topic \in BrokerTopics : broker_get_last_response(t, topic)

SpecBroker == InitRegistry /\ [][NextBroker]_vars

----------------------------------------------------------------------------
(* Claims *)

AllTopics == Topics \cup BrokerTopics

\* the publish calls of request t that returned
Returned(t) == {i \in DOMAIN tasks[t].calls : tasks[t].calls[i].result # NoValue}

\* C1: get_last_response(T) is the empty dict while no publish to T has returned,
\* and afterwards it is the value the latest publish to T that returned gave back
C1_LastResponseIsLatestPublish ==
    \A topic \in AllTopics :
        get_last_response(topic) =
            IF topic \in DOMAIN completed THEN completed[topic] ELSE EmptyDict

\* a publish to a topic returned a value that a later publish to it replaced, while
\* another topic has seen no publish yet
C1_Witness ==
    /\ \E t \in TaskIds : \E i \in Returned(t) :
          /\ tasks[t].calls[i].topic \in DOMAIN completed
          /\ tasks[t].calls[i].result # get_last_response(tasks[t].calls[i].topic)
    /\ \E topic \in Topics : get_last_response(topic) = EmptyDict

\* C2: a topic has one callback, the one of the latest register_topic call for it:
\* the call adds the topic or replaces its callback and changes no other topic, and
\* a publish to the topic invokes the callback the table holds, once, and returns
\* and stores what that callback returned
C2_RegisterReplaces ==
    [][/\ nreg' # nreg =>
            LET r == last_registered'
            IN /\ DOMAIN message_queues' = DOMAIN message_queues \cup {r.topic}
               /\ message_queues'[r.topic] = r.callback
               /\ \A topic \in DOMAIN message_queues \ {r.topic} :
                     message_queues'[topic] = message_queues[topic]
       /\ \A t \in TaskIds :
            ( /\ tasks[t].pc = "idle"
              /\ tasks'[t].entry = "broker.publish"
              /\ tasks'[t].target \in DOMAIN message_queues ) =>
            LET callback == message_queues[tasks'[t].target]
                response == raw_handler(callback.source, tasks'[t].input)
            IN /\ tasks'[t].pc = "done"
               /\ Len(tasks'[t].calls) = 1
               /\ tasks'[t].calls[1].callback = callback
               /\ tasks'[t].calls[1].message = tasks'[t].input
               /\ tasks'[t].response = response
               /\ last_responses'[tasks'[t].target] = response
      ]_vars

\* callback hB replaced hA on a topic, and a publish to the topic then returned and
\* stored what hB gives
C2_Witness ==
    /\ last_registered.was = RawCallback("hA")
    /\ last_registered.callback = RawCallback("hB")
    /\ message_queues[last_registered.topic] = RawCallback("hB")
    /\ \E t \in TaskIds :
          /\ tasks[t].pc = "done"
          /\ tasks[t].entry = "broker.publish"
          /\ tasks[t].target = last_registered.topic
          /\ tasks[t].response = raw_handler("hB", tasks[t].input)
          /\ get_last_response(last_registered.topic) = tasks[t].response

\* what service gives on raw_input, for each id a missing id may default to
Outputs(service, raw_input) ==
    {model_dump(service_predict(service, validate(service, raw_input, u).value)) :
        u \in {u \in Uuids : validate(service, raw_input, u).error = NoError}}

\* C3: when a publish to the topic of a service A chained to B returns, A's output
\* Y on the message was published to B's topic, once and as it is, Y is what the
\* publish returns and what A's topic holds, and B's topic holds B's output on Y
C3_ChainingCorrectness ==
    [][\A t \in TaskIds :
          ( /\ tasks[t].pc # "done"
            /\ tasks'[t].pc = "done"
            /\ tasks'[t].entry = "publish"
            /\ tasks'[t].error = NoError
            /\ tasks'[t].calls[1].callback.kind = "chained" ) =>
          LET calls == tasks'[t].calls
              A == calls[1].callback.source
              B == calls[1].callback.target
              Y == calls[1].output
          IN /\ chains[A] = B
             /\ calls[1].topic = trigger_topic(A)
             /\ Y \in Outputs(A, tasks'[t].input)
             /\ {i \in DOMAIN calls : calls[i].topic = trigger_topic(B)} = {2}
             /\ calls[2].message = Y
             /\ tasks'[t].response = Y
             /\ last_responses'[trigger_topic(A)] = Y
             /\ last_responses'[trigger_topic(B)] \in Outputs(B, Y)
             /\ last_responses'[trigger_topic(B)] # Y
      ]_vars

\* a publish to the topic of a chained service returned
C3_Witness ==
    \E t \in TaskIds :
        /\ tasks[t].pc = "done"
        /\ tasks[t].entry = "publish"
        /\ tasks[t].error = NoError
        /\ tasks[t].calls[1].callback.kind = "chained"
        /\ tasks[t].response = tasks[t].calls[1].output
        /\ Len(tasks[t].calls) = 2

\* C4: a publish to a topic that is not in the table raises the ValueError of an
\* unregistered topic: no callback is invoked, nothing is returned, and the table
\* and the last responses stay as they are
C4_UnknownTopicRejected ==
    [][\A t \in TaskIds :
          ( /\ tasks[t].pc = "idle"
            /\ tasks'[t].entry = "broker.publish"
            /\ tasks'[t].target \notin DOMAIN message_queues ) =>
          /\ tasks'[t].pc = "done"
          /\ tasks'[t].error = TopicNotRegistered
          /\ tasks'[t].response = NoValue
          /\ tasks'[t].calls = <<>>
          /\ message_queues' = message_queues
          /\ last_responses' = last_responses
      ]_vars

\* a publish to an unregistered topic failed while another topic was registered and
\* held a response
C4_Witness ==
    \E t \in TaskIds :
        /\ tasks[t].pc = "done"
        /\ tasks[t].entry = "broker.publish"
        /\ tasks[t].error = TopicNotRegistered
        /\ tasks[t].target \notin DOMAIN message_queues
        /\ last_responses # <<>>

\* model_input passes the validation of the input schema of service
conforms(service, model_input) ==
    \E u \in Uuids : validate(service, model_input, u).error = NoError

\* request t handed a non-conforming input to the predict of a service
NonConforming(t) ==
    \/ /\ tasks[t].entry = "predict"
       /\ tasks[t].target \in Range(service_instances)
       /\ ~conforms(tasks[t].target, tasks[t].input)
    \/ /\ tasks[t].entry = "publish"
       /\ tasks[t].target \in DOMAIN message_queues
       /\ message_queues[tasks[t].target].kind \in {"predict", "chained"}
       /\ ~conforms(message_queues[tasks[t].target].source, tasks[t].input)

\* C5: a predict reached with an input that does not conform to the input schema
\* fails with ValidationError, returns nothing, and no publish of the request
\* returns (so no last response is stored)
C5_ValidationBoundary ==
    \A t \in TaskIds :
        (tasks[t].pc # "idle" /\ NonConforming(t)) =>
            /\ tasks[t].pc = "done"
            /\ tasks[t].error = ValidationError
            /\ tasks[t].response = NoValue
            /\ Returned(t) = {}

\* the last responses of the topics other than topic
Others(responses, topic) ==
    [x \in DOMAIN responses \ {topic} |-> responses[x]]

\* C6: a publish to the topic of a service that has no declared successor invokes
\* the predict of that service and no other callback, and changes no last
\* response but, when it returns, that of its own topic
C6_UnchainedIndependence ==
    [][\A t \in TaskIds :
          ( /\ tasks'[t] # tasks[t]
            /\ tasks'[t].entry = "publish"
            /\ tasks'[t].calls # <<>>
            /\ tasks'[t].calls[1].callback.source \notin DOMAIN chains ) =>
          LET S == tasks'[t].calls[1].callback.source
              topic == trigger_topic(S)
          IN /\ tasks'[t].calls[1].callback = PredictCallback(S)
             /\ tasks'[t].calls[1].topic = topic
             /\ Len(tasks'[t].calls) = 1
             /\ Others(last_responses', topic) = Others(last_responses, topic)
             /\ tasks'[t].pc = "awaiting" => last_responses' = last_responses
             /\ (tasks'[t].pc = "done" /\ tasks'[t].error = NoError) =>
                   /\ tasks'[t].response \in Outputs(S, tasks'[t].input)
                   /\ last_responses'[topic] = tasks'[t].response
      ]_vars

\* a publish to the topic of an unchained service returned, in a registry that
\* holds other services, one of them chained, and their topics have no response
C6_Witness ==
    \E t \in TaskIds :
        /\ tasks[t].pc = "done"
        /\ tasks[t].entry = "publish"
        /\ tasks[t].error = NoError
        /\ tasks[t].calls[1].callback.kind = "predict"
        /\ DOMAIN last_responses = {tasks[t].target}
        /\ Len(service_instances) >= 2
        /\ \E s \in Range(service_instances) : s \in DOMAIN chains

\* C7: an exception raised in a stage of a publish (by the validation of its
\* input, by its inference step, or by a publish that nests too deep) is the one
\* the endpoint gets: the request is over, every earlier stage had given its
\* output, no publish call of the request returns, no last response changes, and
\* no stage runs after the one that failed
C7_ErrorAbortsChain ==
    [][\A t \in TaskIds :
          ( /\ tasks[t].fault = NoError
            /\ tasks'[t].fault # NoError
            /\ tasks'[t].entry = "publish"
            /\ tasks'[t].calls # <<>> ) =>
          LET calls == tasks'[t].calls
              n == Len(calls)
          IN /\ tasks'[t].pc = "done"
             /\ tasks'[t].error = tasks'[t].fault
             /\ tasks'[t].status = publish_status(tasks'[t].fault)
             /\ tasks'[t].response = NoValue
             /\ \A i \in 1..n : calls[i].result = NoValue
             /\ \A i \in 1..(n - 1) : calls[i].output # NoValue
             /\ calls[n].output = NoValue <=> tasks'[t].fault # RecursionError
             /\ n <= Len(tasks[t].calls) + 1
             /\ tasks'[t].fault \in InferenceErrors => n = Len(tasks[t].calls)
             /\ last_responses' = last_responses
      ]_vars

\* the input of a downstream stage did not validate
C7_Witness ==
    \E t \in TaskIds :
        /\ tasks[t].pc = "done"
        /\ tasks[t].entry = "publish"
        /\ Len(tasks[t].calls) >= 2
        /\ tasks[t].fault = ValidationError
        /\ tasks[t].error = ValidationError
        /\ tasks[t].calls[1].output # NoValue
        /\ last_responses = <<>>

\* a catalogued service names a successor that is not in the catalog
Dangling ==
    \E s \in Range(service_instances) :
        s \in DOMAIN chains /\ chains[s] \notin Range(service_instances)

\* C8: the construction of a registry raises exactly when a catalogued service
\* names a successor that is not in the catalog; the chained callbacks of a
\* constructed registry all lead to the registered topic of an instance
C8_ConstructFailsFast ==
    /\ registry = "failed" <=> (registry # "declaring" /\ Dangling)
    /\ registry = "constructed" =>
          \A topic \in DOMAIN message_queues :
              message_queues[topic].kind = "chained" =>
                  /\ message_queues[topic].target \in Range(service_instances)
                  /\ trigger_topic(message_queues[topic].target) \in DOMAIN message_queues

\* a construction raised after it had registered the topic of an earlier service
C8_Witness ==
    /\ registry = "failed"
    /\ message_queues # <<>>

\* C9: the last-response endpoint answers 404 when get_last_response gives the
\* empty dict, and 200 with the stored response otherwise
C9_LastResponseNotFound ==
    \A t \in TaskIds :
        (tasks[t].pc = "done" /\ tasks[t].entry = "last_response") =>
            IF tasks[t].response = EmptyDict
            THEN tasks[t].status = 404
            ELSE tasks[t].status = 200

\* C10: the predict endpoint answers 404 to an unknown model name, 400 to an
\* input that fails validation, and 500 to any other exception
C10_PredictStatus ==
    \A t \in TaskIds :
        (tasks[t].pc = "done" /\ tasks[t].entry = "predict" /\ tasks[t].error # NoError) =>
            tasks[t].status = CASE tasks[t].error = ModelNotFound -> 404
                                [] tasks[t].error = ValidationError -> 400
                                [] OTHER -> 500

\* C11: get_model raises the ValueError of an unknown model exactly when the name
\* is not a key of the instances the construction of this registry made; for any
\* other name it gives the instance of that name, of which there is one, whose
\* trigger topic the registry registered in its broker
C11_GetModel ==
    [][\A t \in TaskIds :
          (tasks[t].pc = "idle" /\ tasks'[t].entry = "predict") =>
          LET name == tasks'[t].target
          IN /\ \A i, j \in DOMAIN service_instances :
                   service_instances[i] = service_instances[j] => i = j
             /\ IF name \notin Range(service_instances)
                THEN /\ tasks'[t].pc = "done"
                     /\ tasks'[t].error = ModelNotFound
                     /\ tasks'[t].response = NoValue
                ELSE /\ tasks'[t].fault # ModelNotFound
                     /\ tasks'[t].pc = "awaiting" <=> conforms(name, tasks'[t].input)
                     /\ tasks'[t].pc = "awaiting" => tasks'[t].service = name
                     /\ trigger_topic(name) \in DOMAIN message_queues
                     /\ message_queues[trigger_topic(name)].source = name
      ]_vars

\* a registry of some but not all the service classes gave the instance of one name
\* and raised for the name of a class it holds no instance of
C11_Witness ==
    /\ registry = "constructed"
    /\ \E t \in TaskIds :
          /\ tasks[t].entry = "predict"
          /\ tasks[t].pc = "awaiting"
          /\ tasks[t].service = tasks[t].target
    /\ \E name \in ServiceClasses : get_model(name).error = ModelNotFound
    /\ \E name \in ServiceClasses : get_model(name).service = name

\* the id of a JSON object, the empty string when it has none
IdOf(value) ==
    IF value.type = "object" /\ "id" \in DOMAIN value.members
    THEN value.members.id ELSE ""

\* C12: the output of a predict that returns has the id of its input (the uuid the
\* input schema gave it when it came without one); so when a publish to the topic
\* of a service returns, the result and the last response of every stage it ran
\* have the id of the published message
C12_IdPreserved ==
    [][\A t \in TaskIds :
          ( /\ tasks[t].pc # "done"
            /\ tasks'[t].pc = "done"
            /\ tasks'[t].error = NoError
            /\ tasks'[t].entry \in {"predict", "publish"} ) =>
          LET task == tasks'[t]
              I == IdOf(task.response)
          IN /\ I # ""
             /\ IF IdOf(task.input) # "" THEN I = IdOf(task.input) ELSE I \in Uuids
             /\ \A i \in DOMAIN task.calls :
                   /\ IdOf(task.calls[i].result) = I
                   /\ i > 1 => IdOf(task.calls[i].message) = I
                   /\ IdOf(last_responses'[task.calls[i].topic]) = I
      ]_vars

\* a message with id doc1 went through the three stages of the chain, and the last
\* response of each of the three topics has that id
C12_Witness ==
    \E t \in TaskIds :
        /\ tasks[t].pc = "done"
        /\ tasks[t].entry = "publish"
        /\ tasks[t].target = trigger_topic(NER)
        /\ IdOf(tasks[t].input) = "doc1"
        /\ Len(tasks[t].calls) = 3
        /\ \A s \in ServiceClasses : IdOf(get_last_response(trigger_topic(s))) = "doc1"

\* value is the dump of an instance of the result schema of service
conforms_output(service, value) ==
    /\ value.type = "object"
    /\ DOMAIN value.members = output_schema_fields(service)
    /\ \A f \in DOMAIN value.members : field_type_ok(f, value.members[f])

\* C13: what predict returns conforms to the result schema of its service: the
\* response of the predict endpoint, the result of each stage of a publish, and
\* with it every last response of the topic of a service
C13_OutputValidated ==
    /\ \A t \in TaskIds :
          (tasks[t].pc = "done" /\ tasks[t].entry = "predict" /\ tasks[t].error = NoError) =>
              conforms_output(tasks[t].target, tasks[t].response)
    /\ \A s \in ServiceClasses :
          trigger_topic(s) \in DOMAIN last_responses =>
              conforms_output(s, last_responses[trigger_topic(s)])

\* C14: a source has one successor, the target of the latest chain_to call for it:
\* the call, whether the source had a successor or not, raises nothing, sets the
\* successor of its source and leaves the other sources alone; the registry
\* constructed later chains the source to that successor, and a publish forwards
\* the output of a chained stage to the topic of that successor and to no other
C14_LastChainWins ==
    [][/\ (declared' # declared /\ registry' = "declaring") =>
            LET d == declared'
            IN /\ d.error = NoError
               /\ d.was = (IF d.source \in DOMAIN chains THEN chains[d.source] ELSE "")
               /\ DOMAIN chains' = DOMAIN chains \cup {d.source}
               /\ chains'[d.source] = d.target
               /\ \A x \in DOMAIN chains \ {d.source} : chains'[x] = chains[x]
       /\ registry' = "constructed" =>
            \A x \in DOMAIN chains \cap Range(service_instances') :
                message_queues'[trigger_topic(x)] = ChainedCallback(x, chains[x])
       /\ \A t \in TaskIds : \A i \in DOMAIN tasks'[t].calls :
            LET c == tasks'[t].calls[i]
            IN /\ c.callback.kind = "chained" <=> c.callback.source \in DOMAIN chains
               /\ i < Len(tasks'[t].calls) =>
                     tasks'[t].calls[i + 1].topic = trigger_topic(chains[c.callback.source])
      ]_vars

\* the latest chain_to call gave a source, already chained to a catalogued
\* service, another catalogued service as its successor
C14_Witness ==
    /\ registry = "declaring"
    /\ declared.error = NoError
    /\ declared.was \in Range(model_services) \ {declared.target}
    /\ declared.target \in Range(model_services)
    /\ declared.source \in Range(model_services)
    /\ chains[declared.source] = declared.target
    /\ Cardinality(DOMAIN chains) = 2

\* C15: a chain_to call whose source class or whose target class is not a model
\* service raises and leaves the chains as they were
C15_ChainToChecksBoth ==
    [][(/\ declared' # declared
        /\ registry' = "declaring"
        /\ \/ declared'.source \notin ServiceClasses
           \/ declared'.target \notin ServiceClasses) =>
          /\ declared'.error # NoError
          /\ chains' = chains
      ]_vars

\* the topics of the calls of a request, outermost first
CallTopics(task) == [i \in DOMAIN task.calls |-> task.calls[i].topic]

Reverse(seq) == [i \in DOMAIN seq |-> seq[Len(seq) + 1 - i]]

\* C16: the calls of a publish form one stack: each chained stage publishes once,
\* to the topic of its successor, after its own inference step and before it
\* returns, so the topics are published to in the order of the chain, each once,
\* nothing is stored before the last stage returned, and the last responses are
\* then written innermost first: for A -> B -> C in the order C, B, A
C16_SequentialStack ==
    [][\A t \in TaskIds :
          (tasks'[t] # tasks[t] /\ tasks'[t].entry = "publish") =>
          LET task == tasks'[t]
              n == Len(task.calls)
          IN /\ \A i \in 1..(n - 1) :
                   /\ task.calls[i].callback.kind = "chained"
                   /\ task.calls[i].output # NoValue
                   /\ task.calls[i + 1].topic = trigger_topic(task.calls[i].callback.target)
                   /\ task.calls[i + 1].message = task.calls[i].output
             /\ \A i, j \in 1..n : task.calls[i].topic = task.calls[j].topic => i = j
             /\ Len(task.calls) <= Len(tasks[t].calls) + 1
             /\ task.stored \in {<<>>, Reverse(CallTopics(task))}
             /\ task.stored # <<>> <=> (task.pc = "done" /\ task.error = NoError)
             /\ (task.pc = "done" /\ task.error = NoError) =>
                   task.calls[n].callback.kind = "predict"
      ]_vars

\* a publish to the topic of entity recognition, chained to entity linking, itself
\* chained to entity summarization, returned
C16_Witness ==
    \E t \in TaskIds :
        /\ tasks[t].pc = "done"
        /\ tasks[t].entry = "publish"
        /\ CallTopics(tasks[t]) = <<trigger_topic(NER), trigger_topic(EL), trigger_topic(SUM)>>
        /\ tasks[t].stored = <<trigger_topic(SUM), trigger_topic(EL), trigger_topic(NER)>>

\* following the chains from service s for k steps never comes to a service
\* without successor
RECURSIVE chained_for(_, _)
chained_for(s, k) ==
    IF s \notin DOMAIN chains THEN FALSE
    ELSE IF k = 0 THEN TRUE
    ELSE chained_for(chains[s], k - 1)

\* the chain that starts at s runs into a cycle
ReachesCycle(s) == chained_for(s, Cardinality(DOMAIN chains))

\* the publish of request t went to the topic of a service whose chain runs into
\* a cycle
OnCycle(t) ==
    /\ tasks[t].entry = "publish"
    /\ tasks[t].calls # <<>>
    /\ ReachesCycle(tasks[t].calls[1].callback.source)

StageErrors == InferenceErrors \cup {ValidationError}

\* C17 as it was stated: a publish on a cycle is never over, unless a stage raised
C17_CycleNeverCompletes ==
    \A t \in TaskIds :
        (OnCycle(t) /\ tasks[t].pc = "done") => tasks[t].fault \in StageErrors

\* C17: the construction accepts chains with a cycle (it raises for a missing
\* successor only); a publish to a topic whose chain runs into a cycle never
\* returns a value and no last response of a service on such a chain is ever
\* written: unless a stage raises before, the calls nest until the recursion limit
\* and the publish ends with RecursionError; and every publish, whatever the
\* chains, is over some time after its inference steps are
C17_CycleEndsInRecursionError ==
    /\ [](registry = "failed" => Dangling)
    /\ [](\A t \in TaskIds :
            OnCycle(t) =>
              /\ tasks[t].stored = <<>>
              /\ tasks[t].response = NoValue
              /\ \A i \in DOMAIN tasks[t].calls : tasks[t].calls[i].result = NoValue
              /\ (tasks[t].pc = "done" /\ tasks[t].fault \notin StageErrors) =>
                    /\ tasks[t].error = RecursionError
                    /\ Len(tasks[t].calls) = MaxDepth)
    /\ [](\A s \in Range(service_instances) :
            ReachesCycle(s) => get_last_response(trigger_topic(s)) = EmptyDict)
    /\ \A t \in TaskIds : (tasks[t].pc = "awaiting") ~> (tasks[t].pc = "done")

\* a registry was constructed on chains with a cycle, and a publish to a topic on
\* the cycle ended with RecursionError
C17_Witness ==
    /\ registry = "constructed"
    /\ \E t \in TaskIds :
          /\ OnCycle(t)
          /\ tasks[t].pc = "done"
          /\ tasks[t].error = RecursionError
          /\ tasks[t].status = 500
    /\ last_responses = <<>>

\* C18: publishes to one topic are not serialised: when a publish returns, the
\* last response of every topic it stored to is its own result for that topic,
\* whatever else is in flight and whichever request came first; and the last
\* response of a topic is always, whole, the result of one publish call
C18_LastWriterWins ==
    [][/\ \A t \in TaskIds :
            ( /\ tasks[t].pc # "done"
              /\ tasks'[t].pc = "done"
              /\ tasks'[t].entry = "publish"
              /\ tasks'[t].error = NoError ) =>
            \A i \in DOMAIN tasks'[t].calls :
                last_responses'[tasks'[t].calls[i].topic] = tasks'[t].calls[i].result
       /\ \A topic \in DOMAIN last_responses' :
            \E t \in TaskIds : \E i \in DOMAIN tasks'[t].calls :
                /\ tasks'[t].calls[i].topic = topic
                /\ tasks'[t].calls[i].result = last_responses'[topic]
      ]_vars

\* two publishes to one topic returned different results, and the last response
\* is that of the request that came first: it was still awaiting its inference
\* step when the second request came and went
C18_Witness ==
    /\ \A t \in {1, 2} :
          /\ tasks[t].pc = "done"
          /\ tasks[t].entry = "publish"
          /\ tasks[t].error = NoError
    /\ tasks[1].target = tasks[2].target
    /\ tasks[1].response # tasks[2].response
    /\ get_last_response(tasks[1].target) = tasks[1].response

\* C19: every topic of the table has a callback, so no publish raises the
\* ValueError of a topic without callback, and a publish that raises before it
\* invokes a callback raises the ValueError of an unregistered topic
C19_RegisteredTopicsHaveCallbacks ==
    /\ \A topic \in DOMAIN message_queues : message_queues[topic] # NoCallback
    /\ \A t \in TaskIds :
          /\ tasks[t].fault # NoCallbackRegistered
          /\ ( /\ tasks[t].pc = "done"
               /\ tasks[t].entry \in {"publish", "broker.publish"}
               /\ tasks[t].calls = <<>> ) => tasks[t].error = TopicNotRegistered

\* a registry registered the topics of a chained and of an unchained service, and
\* a publish to another topic raised
C19_Witness ==
    /\ registry = "constructed"
    /\ \E topic \in DOMAIN message_queues : message_queues[topic].kind = "chained"
    /\ \E topic \in DOMAIN message_queues : message_queues[topic].kind = "predict"
    /\ \E t \in TaskIds :
          /\ tasks[t].pc = "done"
          /\ tasks[t].entry = "publish"
          /\ tasks[t].error = TopicNotRegistered

\* C20: a step changes the last response of a topic only when a publish returns in
\* it whose calls reached the topic, and then to the result of that call; no
\* other step (register_topic, get_last_response, a publish that raises or that
\* is suspended, a publish on other topics, the construction of the registry)
\* changes it, and no step removes it
C20_LastResponseFrame ==
    [][\A topic \in AllTopics :
          /\ topic \in DOMAIN last_responses => topic \in DOMAIN last_responses'
          /\ ( /\ topic \in DOMAIN last_responses'
               /\ \/ topic \notin DOMAIN last_responses
                  \/ last_responses'[topic] # last_responses[topic] ) =>
                \E t \in TaskIds :
                    /\ tasks[t].pc # "done"
                    /\ tasks'[t].pc = "done"
                    /\ tasks'[t].entry \in {"publish", "broker.publish"}
                    /\ tasks'[t].error = NoError
                    /\ \E i \in DOMAIN tasks'[t].calls :
                          /\ tasks'[t].calls[i].topic = topic
                          /\ tasks'[t].calls[i].result = last_responses'[topic]
      ]_vars

\* a publish to a topic returned and stored its result, which is still there
\* though a second publish to the same topic raised
C20_Witness ==
    \E t, u \in TaskIds :
        /\ tasks[t].pc = "done"
        /\ tasks[t].entry = "publish"
        /\ tasks[t].error = NoError
        /\ tasks[u].pc = "done"
        /\ tasks[u].entry = "publish"
        /\ tasks[u].error # NoError
        /\ tasks[u].target = tasks[t].target
        /\ tasks[u].calls # <<>>
        /\ get_last_response(tasks[t].target) = tasks[t].response

\* the topics a publish to topic goes through, by the callbacks of the table: the
\* topic itself and, while the callback is a chained one, the topic of its target
RECURSIVE Downstream(_, _)
Downstream(topic, k) ==
    IF k = 0 \/ topic \notin DOMAIN message_queues THEN <<topic>>
    ELSE IF message_queues[topic].kind # "chained" THEN <<topic>>
    ELSE <<topic>> \o Downstream(trigger_topic(message_queues[topic].target), k - 1)

\* C21: a publish into a chain writes the last responses all or nothing: the step
\* in which it returns writes the last response of every topic from the published
\* one to the end of the chain, each with the result of its stage; a step in
\* which it is suspended after a stage's predict, or in which it raises at any
\* stage, writes no last response at all, those of the stages whose predict had
\* returned included
C21_AllOrNothing ==
    [][\A t \in TaskIds :
          (tasks'[t] # tasks[t] /\ tasks'[t].entry = "publish") =>
          LET task == tasks'[t]
          IN IF task.pc = "done" /\ task.error = NoError
             THEN LET topics == Downstream(task.target, MaxDepth)
                  IN /\ CallTopics(task) = topics
                     /\ \A i \in DOMAIN topics :
                           /\ task.calls[i].result # NoValue
                           /\ topics[i] \in DOMAIN last_responses'
                           /\ last_responses'[topics[i]] = task.calls[i].result
             ELSE /\ last_responses' = last_responses
                  /\ task.stored = <<>>
                  /\ \A i \in DOMAIN task.calls : task.calls[i].result = NoValue
      ]_vars

\* a publish to the topic of entity recognition raised in its last stage, after
\* the predict of the two stages before it had returned, and no topic has a last
\* response; the second publish is suspended after its first stage
C21_Witness ==
    \E t, u \in TaskIds :
        /\ tasks[t].pc = "done"
        /\ tasks[t].entry = "publish"
        /\ tasks[t].error # NoError
        /\ Len(tasks[t].calls) = 3
        /\ tasks[t].calls[1].output # NoValue
        /\ tasks[t].calls[2].output # NoValue
        /\ tasks[u].pc = "awaiting"
        /\ Len(tasks[u].calls) = 2
        /\ last_responses = <<>>

\* C22: predict called on the service get_model returns runs that service alone
\* and stays off the broker, a declared successor or not: in every step of a
\* predict request no publish call is made, the callback table and every last
\* response are as before, the only inference step awaited is that of the named
\* service, and the answer is the output of that service
C22_DirectPredictOffBroker ==
    [][\A t \in TaskIds :
          (tasks'[t] # tasks[t] /\ tasks'[t].entry = "predict") =>
          LET task == tasks'[t]
          IN /\ task.calls = <<>>
             /\ task.stored = <<>>
             /\ last_responses' = last_responses
             /\ message_queues' = message_queues
             /\ task.service \in {"", task.target}
             /\ \A u \in TaskIds \ {t} : tasks'[u] = tasks[u]
             /\ (task.pc = "done" /\ task.error = NoError) =>
                   /\ tasks[t].service = task.target
                   /\ task.response =
                         model_dump(service_predict(task.target, tasks[t].model_input))
      ]_vars

\* a predict on a service with a declared successor was answered with the output
\* of the service, and the successor's topic has no last response
C22_Witness ==
    \E t \in TaskIds :
        /\ tasks[t].pc = "done"
        /\ tasks[t].entry = "predict"
        /\ tasks[t].error = NoError
        /\ tasks[t].status = 200
        /\ tasks[t].target \in DOMAIN chains
        /\ chains[tasks[t].target] \in Range(service_instances)
        /\ message_queues[trigger_topic(tasks[t].target)].kind = "chained"
        /\ get_last_response(trigger_topic(chains[tasks[t].target])) = EmptyDict
        /\ get_last_response(trigger_topic(tasks[t].target)) = EmptyDict

\* C23: what a registry serves is fixed when it is constructed: a register or
\* chain_to call made afterwards leaves the names get_model resolves and every
\* callback of the broker as they were, and requests go on being served by them (a
\* predict on a name registered late is not found, a publish goes on to the
\* target its callback was built with); model_names, which reads the catalog of
\* classes, lists the late registration, a name get_model then does not resolve
C23_FrozenAtConstruct ==
    [][registry = "constructed" =>
          /\ registry' = "constructed"
          /\ service_instances' = service_instances
          /\ message_queues' = message_queues
          /\ \A name \in ModelNames : get_model(name)' = get_model(name)
          /\ Range(service_instances) \subseteq Range(model_names)
          /\ model_names' # model_names =>
                \E c \in ServiceClasses :
                    /\ model_names' = Append(model_names, c)
                    /\ get_model(c)'.error = ModelNotFound
          /\ \A t \in TaskIds :
                (tasks'[t] # tasks[t] /\ tasks'[t].pc = "done") =>
                LET task == tasks'[t]
                IN /\ task.entry = "predict" =>
                         (task.error = ModelNotFound <=>
                              task.target \notin Range(service_instances))
                   /\ task.entry = "publish" =>
                         \A i \in DOMAIN task.calls :
                            /\ task.calls[i].callback = message_queues[task.calls[i].topic]
                            /\ i < Len(task.calls) =>
                                  task.calls[i + 1].topic =
                                      trigger_topic(message_queues[task.calls[i].topic].target)
      ]_vars

\* entity recognition was registered and entity linking chained to it after the
\* registry was constructed: the name is listed and get_model does not resolve
\* it, and a publish to the topic of entity linking went on to entity
\* summarization, the target its callback was built with
C23_Witness ==
    /\ registry = "constructed"
    /\ NER \in Range(model_names)
    /\ NER \notin Range(service_instances)
    /\ get_model(NER).error = ModelNotFound
    /\ chains[EL] = NER
    /\ message_queues[trigger_topic(EL)] = ChainedCallback(EL, SUM)
    /\ trigger_topic(NER) \notin DOMAIN message_queues
    /\ \E u \in TaskIds :
          /\ tasks[u].pc = "done"
          /\ tasks[u].entry = "publish"
          /\ tasks[u].error = NoError
          /\ CallTopics(tasks[u]) = <<trigger_topic(EL), trigger_topic(SUM)>>

====
